---- MODULE Spec2Model ----
(***************************************************************************)
(* FraudDetectionAnalyzer (fraud_detection_analyzer.py) as a state machine. *)
(*                                                                         *)
(* Numbers.  Amounts are whole dollars.  Every comparison the code makes   *)
(* (amount > mean + k*std, share > 0.3, ...) is decided exactly, on        *)
(* integers, by cross-multiplying (FracLE keeps the products inside TLC's  *)
(* 32-bit integers).  A risk_score or a sigma_multiplier is a fixed-point  *)
(* number: the integer floor(Scale * value).                               *)
(*                                                                         *)
(* Sorting.  pandas sorts with numpy's quicksort, which is an insertion    *)
(* sort (stable) up to 16 elements; the batches longer than that have only *)
(* identical rows on equal dates, so a stable sort is what the code does   *)
(* on every batch of the model.  list.sort is stable, reverse=True too.    *)
(***************************************************************************)
EXTENDS Integers, Sequences, FiniteSets, TLC

VARIABLES
    sigma_threshold,    \* self.sigma_threshold
    min_transactions,   \* self.min_transactions
    loaded,             \* whether self.df exists (load_data has returned)
    df,                 \* self.df: the rows, in index order (row.name = position - 1)
    year_month,         \* whether self.df has the column 'year_month'
    vendor_stats,       \* self.vendor_stats: vendor -> stats
    anomalies,          \* self.anomalies
    op,                 \* the method that returned last
    arg,                \* concentration_threshold of that call, in tenths (0: no such argument)
    raised,             \* the exception that call raised ("": it returned)
    ret,                \* the list that method returned (<<>> for the others)
    replaced            \* history: what each load_data over a loaded batch found

vars ==
    <<sigma_threshold, min_transactions, loaded, df, year_month,
      vendor_stats, anomalies, op, arg, raised, ret, replaced>>

(***************************************************************************)
(* Bounds of the model.                                                    *)
(***************************************************************************)
\* longest batch of the free family
MaxLen == 3
\* fixed-point precision of scores and sigma multipliers: units per point
Scale == 100
\* rows of the repeated amount in a bulk batch
BulkReps == 22
\* largest amount of the single-transaction batches
MaxAmount == 50100
\* months of history in the frequency batches
MaxMonths == 6
\* most calls of load_data over a loaded batch, where reloads are allowed
MaxReloads == 1

Vendors == {"A", "B"}
\* the vendors in ascending order (groupby sorts its keys)
VendorSeq == <<"A", "B">>
Amounts == {0, 2100, 4900}
BulkAmounts == {0, 700, 1000}
Dates == {[m |-> 1, d |-> 2], [m |-> 2, d |-> 1]}
\* (sigma_threshold, min_transactions): a custom configuration and the default
Configs == {[sigma |-> 1, minTx |-> 3], [sigma |-> 3, minTx |-> 5]}
\* concentration_threshold, in tenths: the default 0.3, and 0.5
ConcentrationThresholds == {3, 5}
\* transactions of one vendor in one month, in the frequency batches
MonthCounts == {0, 1, 9, 10}

(***************************************************************************)
(* Arithmetic helpers.                                                     *)
(***************************************************************************)
Min(a, b) == IF a <= b THEN a ELSE b
Max(a, b) == IF a >= b THEN a ELSE b

\* a/b <= c/d for a, c >= 0 and b, d > 0, by Euclid's algorithm on the two
\* fractions: no product is formed, so nothing overflows.
RECURSIVE FracLE(_, _, _, _)
FracLE(a, b, c, d) ==
    LET qa == a \div b
        qc == c \div d
        ra == a % b
        rc == c % d
    IN  IF qa # qc THEN qa < qc
        ELSE IF ra = 0 THEN TRUE
        ELSE IF rc = 0 THEN FALSE
        ELSE FracLE(d, rc, b, ra)

RECURSIVE SeqSum(_)
SeqSum(s) == IF s = <<>> THEN 0 ELSE Head(s) + SeqSum(Tail(s))

RECURSIVE SeqSumSq(_)
SeqSumSq(s) == IF s = <<>> THEN 0 ELSE Head(s) * Head(s) + SeqSumSq(Tail(s))

RECURSIVE Flatten(_)
\* the concatenation of a sequence of sequences
Flatten(ss) == IF ss = <<>> THEN <<>> ELSE Head(ss) \o Flatten(Tail(ss))

RECURSIVE SelectSeqIdx(_, _)
\* the indices (ascending) of the rows of `rows` whose vendor is v
SelectSeqIdx(rows, v) ==
    IF rows = <<>> THEN <<>>
    ELSE LET n == Len(rows)
             front == SelectSeqIdx(SubSeq(rows, 1, n - 1), v)
         IN  IF rows[n].vendor = v THEN Append(front, n) ELSE front

\* pandas Series.mean() and Series.std() (sample, n-1 denominator) of the
\* integer series s, exactly: mean = sum/count, std = sqrt(ssd / (count*(count-1)))
\* with ssd = count * sum(x^2) - sum(x)^2.  count = 1 gives std = NaN.
SeriesStats(s) ==
    LET n == Len(s)
        total == SeqSum(s)
    IN  [count |-> n, sum |-> total, ssd |-> n * SeqSumSq(s) - total * total]

\* std > 0 (NaN > 0 is False)
StdPositive(st) == st.count >= 2 /\ st.ssd > 0

\* x > mean + k * std, for k >= 0; False when std is NaN
ExceedsSigma(x, st, k) ==
    LET n == st.count
        dev == n * x - st.sum
    IN  /\ n >= 2
        /\ dev > 0
        /\ \/ st.ssd = 0
           \/ k = 0
           \/ ~FracLE(dev * dev, st.ssd, k * k * n, n - 1)

RECURSIVE FloorRoot(_, _, _, _, _, _)
\* the largest y in lo..hi with y^2 * a / b <= c / d, given that lo qualifies
FloorRoot(lo, hi, a, b, c, d) ==
    IF lo >= hi THEN lo
    ELSE LET mid == (lo + hi + 1) \div 2
         IN  IF FracLE(mid * mid * a, b, c, d)
             THEN FloorRoot(mid, hi, a, b, c, d)
             ELSE FloorRoot(lo, mid - 1, a, b, c, d)

RECURSIVE RootBound(_, _, _, _, _)
\* hi, doubled until hi^2 * a / b > c / d
RootBound(hi, a, b, c, d) ==
    IF FracLE(hi * hi * a, b, c, d) THEN RootBound(2 * hi, a, b, c, d) ELSE hi

\* floor(Scale * (x - mean) / std) for x > mean and std > 0; x need not be
\* a value of the series the stats were computed from
SigmaMultiplier(x, st) ==
    LET n == st.count
        dev == n * x - st.sum
        b == Scale * Scale * (n - 1)
    IN  FloorRoot(0, RootBound(Scale, n, b, dev * dev, st.ssd), n, b, dev * dev, st.ssd)

(***************************************************************************)
(* The batches load_data is given.                                         *)
(***************************************************************************)
Row(v, a, dt) == [vendor |-> v, amount |-> a, date |-> dt]

Rows == {Row(v, a, dt) : v \in Vendors, a \in Amounts, dt \in Dates}

\* the free family: every sequence of at most MaxLen rows
FreeBatches == UNION {[1..n -> Rows] : n \in 0..MaxLen}

Repeat(r, n) == [i \in 1..n |-> r]

\* the bulk family: one late row of vendor A, then BulkReps earlier rows of it
BulkBatches ==
    {<<Row("A", y, [m |-> 2, d |-> 1])>> \o Repeat(Row("A", x, [m |-> 1, d |-> 1]), BulkReps) :
        x \in BulkAmounts, y \in BulkAmounts}

\* the rows of one vendor-month: n identical rows
MonthRows(v, mo, day, a, n) == Repeat(Row(v, a, [m |-> mo, d |-> day]), n)

\* the frequency family: vendor A has c[mo] rows in month mo (latest month
\* first); with withB, vendor B has one row in each of the months 1, 2, 3
FreqBatch(c, withB, a) ==
    Flatten([k \in 1..MaxMonths |-> MonthRows("A", MaxMonths + 1 - k, 1, a, c[MaxMonths + 1 - k])])
        \o (IF withB THEN Flatten([k \in 1..3 |-> MonthRows("B", k, 2, a, 1)]) ELSE <<>>)

FreqBatches ==
    {FreqBatch(c, withB, 100) : c \in [1..MaxMonths -> MonthCounts], withB \in BOOLEAN}

\* the spike family: one row a month, then x rows in the last month
SpikeBatches ==
    {FreqBatch([mo \in 1..MaxMonths |-> IF mo = MaxMonths THEN x ELSE 1], withB, 999) :
        x \in {9, 10}, withB \in BOOLEAN}

\* the single-transaction family
SingleAmounts == (0..MaxAmount) \cup {449900, 450000, 450100, 1000000}

SingleBatches ==
    {<<Row(v, a, [m |-> 1, d |-> 1])>> : v \in Vendors, a \in SingleAmounts}

Batches == FreeBatches \cup BulkBatches \cup SpikeBatches

\* the reload family: a few batches of the free family, all of vendor A on
\* one date: the empty batch, one row, and MaxLen rows of which the last
\* alone is not 0
ReloadBatches ==
    {<<>>}
        \cup {<<Row("A", x, [m |-> 1, d |-> 2])>> : x \in Amounts}
        \cup {Repeat(Row("A", 0, [m |-> 1, d |-> 2]), MaxLen - 1)
                  \o <<Row("A", x, [m |-> 1, d |-> 2])>> : x \in Amounts}

DateLE(a, b) == a.m < b.m \/ (a.m = b.m /\ a.d <= b.d)

RECURSIVE SortByDate(_)
\* sort_values('date').reset_index(drop=True): stable, ascending
SortByDate(rows) ==
    IF rows = <<>> THEN <<>>
    ELSE LET n == Len(rows)
             front == SortByDate(SubSeq(rows, 1, n - 1))
             last == rows[n]
             keep == Cardinality({i \in DOMAIN front : DateLE(front[i].date, last.date)})
         IN  SubSeq(front, 1, keep) \o <<last>> \o SubSeq(front, keep + 1, Len(front))

(***************************************************************************)
(* __init__ and load_data.                                                 *)
(***************************************************************************)
\* self.vendor_stats = {}
NoStats == [v \in {} |-> 0]

Init ==
    /\ \E c \in Configs : sigma_threshold = c.sigma /\ min_transactions = c.minTx
    /\ loaded = FALSE
    /\ df = <<>>
    /\ year_month = FALSE
    /\ vendor_stats = NoStats
    /\ anomalies = <<>>
    /\ op = "init"
    /\ arg = 0
    /\ raised = ""
    /\ ret = <<>>
    /\ replaced = <<>>

\* the method `name` raises `exc` before it has assigned anything
Raise(name, exc) ==
    /\ op' = name
    /\ arg' = 0
    /\ raised' = exc
    /\ ret' = <<>>
    /\ UNCHANGED <<replaced, sigma_threshold, min_transactions, loaded, df, year_month,
                   vendor_stats, anomalies>>

\* the method `name` returns `result`, having assigned nothing
Return(name, a, result) ==
    /\ op' = name
    /\ arg' = a
    /\ raised' = ""
    /\ ret' = result
    /\ UNCHANGED <<replaced, sigma_threshold, min_transactions, loaded, df, year_month,
                   vendor_stats, anomalies>>

\* self.df is assigned a copy of data, so the column year_month is gone;
\* self.vendor_stats and self.anomalies are not touched
LoadData(data) ==
    /\ replaced' = IF loaded
                   THEN Append(replaced, [df |-> df, vendor_stats |-> vendor_stats,
                                          anomalies |-> anomalies])
                   ELSE replaced
    /\ loaded' = TRUE
    /\ df' = SortByDate(data)
    /\ year_month' = FALSE
    /\ op' = "load_data"
    /\ arg' = 0
    /\ raised' = ""
    /\ ret' = <<>>
    /\ UNCHANGED <<sigma_threshold, min_transactions, vendor_stats, anomalies>>

(***************************************************************************)
(* compute_vendor_statistics.                                              *)
(***************************************************************************)
VendorAmounts(rows, v) ==
    LET idx == SelectSeqIdx(rows, v)
    IN  [i \in 1..Len(idx) |-> rows[idx[i]].amount]

\* mutant: a vendor needs more than min_transactions rows
VendorStatisticsStrict(rows, minTx, sigma) ==
    LET present == {v \in Vendors : Len(SelectSeqIdx(rows, v)) > Max(minTx, 1)}
    IN  [v \in present |->
            [stats |-> SeriesStats(VendorAmounts(rows, v)), sigma |-> sigma]]

\* the dict the method builds: vendors with at least min_transactions rows
VendorStatistics(rows, minTx, sigma) ==
    LET present == {v \in Vendors : Len(SelectSeqIdx(rows, v)) >= Max(minTx, 1)}
    IN  [v \in present |->
            [stats |-> SeriesStats(VendorAmounts(rows, v)), sigma |-> sigma]]

\* self.df does not exist before load_data: AttributeError
ComputeVendorStatistics ==
    IF ~loaded THEN Raise("compute_vendor_statistics", "AttributeError")
    ELSE /\ vendor_stats' = VendorStatistics(df, min_transactions, sigma_threshold)
         /\ op' = "compute_vendor_statistics"
         /\ arg' = 0
         /\ raised' = ""
         /\ ret' = <<>>
         /\ UNCHANGED <<replaced, sigma_threshold, min_transactions, loaded, df, year_month, anomalies>>

(***************************************************************************)
(* The anomaly records.  transaction_id is row.name for a transaction-bound *)
(* anomaly ("txn_<row.name>") and -1 for "freq_<vendor>_<month>" and        *)
(* "conc_<vendor>"; month is the year_month of a frequency anomaly;         *)
(* threshold is the approval threshold a Threshold Evasion names in its     *)
(* reason; sigma_multiplier is the Statistical Outlier's evidence field.    *)
(***************************************************************************)
Anomaly(tid, v, mo, a, type, score, thr, sm) ==
    [transaction_id |-> tid, vendor |-> v, month |-> mo, amount |-> a,
     anomaly_type |-> type, risk_score |-> score, threshold |-> thr,
     sigma_multiplier |-> sm]

(***************************************************************************)
(* detect_statistical_outliers.                                            *)
(***************************************************************************)
\* mutant: the score without its upper clamp
OutlierRiskUnclamped(sm) == Max(0, (sm - 3 * Scale) * 20 + 70 * Scale)

\* risk_score of a Statistical Outlier whose sigma multiplier is sm
OutlierRisk(sm) == Min(100 * Scale, Max(0, (sm - 3 * Scale) * 20 + 70 * Scale))

\* what the loop body appends for row i, given the stats dict
OutlierAt(rows, i, stats) ==
    LET vendor == rows[i].vendor
        amount == rows[i].amount
    IN  IF vendor \in DOMAIN stats
           /\ ExceedsSigma(amount, stats[vendor].stats, stats[vendor].sigma)
        THEN LET st == stats[vendor].stats
                 sm == IF StdPositive(st) THEN SigmaMultiplier(amount, st) ELSE 0
             IN  <<Anomaly(i - 1, vendor, 0, amount, "Statistical Outlier",
                           OutlierRisk(sm), 0, sm)>>
        ELSE <<>>

StatisticalOutliers(rows, stats) ==
    Flatten([i \in 1..Len(rows) |-> OutlierAt(rows, i, stats)])

DetectStatisticalOutliers ==
    IF ~loaded THEN Raise("detect_statistical_outliers", "AttributeError")
    ELSE Return("detect_statistical_outliers", 0, StatisticalOutliers(df, vendor_stats))

(***************************************************************************)
(* detect_round_dollar_patterns.                                           *)
(***************************************************************************)
thresholds == <<1000, 2500, 5000, 10000, 25000, 50000>>

\* mutant: round to the thousand
IsRoundThousand(amount) == amount % 1000 = 0 /\ amount >= 1000

IsRoundDollar(amount) == amount % 100 = 0 /\ amount >= 1000

RoundDollarRisk(amount) == Min(85 * Scale, 40 * Scale + (amount * Scale) \div 10000)

RoundDollarAt(rows, i) ==
    LET amount == rows[i].amount
    IN  IF IsRoundDollar(amount)
        THEN <<Anomaly(i - 1, rows[i].vendor, 0, amount, "Round Dollar Pattern",
                       RoundDollarRisk(amount), 0, 0)>>
        ELSE <<>>

\* mutant: the window without its lower end
InWindowOpen(amount, threshold) == threshold - 100 < amount /\ amount < threshold

InWindow(amount, threshold) == threshold - 100 <= amount /\ amount < threshold

RECURSIVE EvasionFrom(_, _, _)
\* the inner loop over thresholds[k..]: append for the first match, then break
EvasionFrom(rows, i, k) ==
    IF k > Len(thresholds) THEN <<>>
    ELSE IF InWindow(rows[i].amount, thresholds[k])
         THEN <<Anomaly(i - 1, rows[i].vendor, 0, rows[i].amount, "Threshold Evasion",
                        80 * Scale, thresholds[k], 0)>>
         ELSE EvasionFrom(rows, i, k + 1)

RoundDollarPatterns(rows) ==
    Flatten([i \in 1..Len(rows) |-> RoundDollarAt(rows, i) \o EvasionFrom(rows, i, 1)])

DetectRoundDollarPatterns ==
    IF ~loaded THEN Raise("detect_round_dollar_patterns", "AttributeError")
    ELSE Return("detect_round_dollar_patterns", 0, RoundDollarPatterns(df))

(***************************************************************************)
(* detect_frequency_anomalies.                                             *)
(***************************************************************************)
\* the rows of monthly_counts for vendor v: its year_month values, ascending
RECURSIVE SortedSeq(_)
SortedSeq(S) ==
    IF S = {} THEN <<>>
    ELSE LET lo == CHOOSE x \in S : \A y \in S : x <= y
         IN  <<lo>> \o SortedSeq(S \ {lo})

VendorMonths(rows, v) ==
    SortedSeq({rows[i].date.m : i \in {j \in DOMAIN rows : rows[j].vendor = v}})

\* transaction_count of (v, mo)
MonthCount(rows, v, mo) ==
    Cardinality({i \in DOMAIN rows : rows[i].vendor = v /\ rows[i].date.m = mo})

\* min(90, 50 + (count - mean_freq) * 5), for count > mean_freq
FrequencyRisk(count, st) ==
    Min(90 * Scale, 50 * Scale + (5 * Scale * (st.count * count - st.sum)) \div st.count)

\* mutant: the loop body with one standard deviation instead of two
FrequencyAtOneSigma(rows, v) ==
    LET months == VendorMonths(rows, v)
        vendor_monthly == [j \in 1..Len(months) |-> MonthCount(rows, v, months[j])]
        st == SeriesStats(vendor_monthly)
    IN  IF Len(vendor_monthly) >= 3 /\ StdPositive(st)
        THEN Flatten([j \in 1..Len(months) |->
                 IF ExceedsSigma(vendor_monthly[j], st, 1) /\ vendor_monthly[j] >= 10
                 THEN <<Anomaly(-1, v, months[j], 0, "Frequency Spike",
                                FrequencyRisk(vendor_monthly[j], st), 0, 0)>>
                 ELSE <<>>])
        ELSE <<>>

\* mutant: the loop body without the floor of 10 transactions
FrequencyAtNoFloor(rows, v) ==
    LET months == VendorMonths(rows, v)
        vendor_monthly == [j \in 1..Len(months) |-> MonthCount(rows, v, months[j])]
        st == SeriesStats(vendor_monthly)
    IN  IF Len(vendor_monthly) >= 3 /\ StdPositive(st)
        THEN Flatten([j \in 1..Len(months) |->
                 IF ExceedsSigma(vendor_monthly[j], st, 2)
                 THEN <<Anomaly(-1, v, months[j], 0, "Frequency Spike",
                                FrequencyRisk(vendor_monthly[j], st), 0, 0)>>
                 ELSE <<>>])
        ELSE <<>>

\* the body of the loop over vendors, for vendor v
FrequencyAt(rows, v) ==
    LET months == VendorMonths(rows, v)
        vendor_monthly == [j \in 1..Len(months) |-> MonthCount(rows, v, months[j])]
        st == SeriesStats(vendor_monthly)
    IN  IF Len(vendor_monthly) >= 3 /\ StdPositive(st)
        THEN Flatten([j \in 1..Len(months) |->
                 IF ExceedsSigma(vendor_monthly[j], st, 2) /\ vendor_monthly[j] >= 10
                 THEN <<Anomaly(-1, v, months[j], 0, "Frequency Spike",
                                FrequencyRisk(vendor_monthly[j], st), 0, 0)>>
                 ELSE <<>>])
        ELSE <<>>

FrequencyAnomalies(rows) ==
    Flatten([k \in 1..Len(VendorSeq) |-> FrequencyAt(rows, VendorSeq[k])])

\* the method assigns self.df['year_month'] before it counts
DetectFrequencyAnomalies ==
    IF ~loaded THEN Raise("detect_frequency_anomalies", "AttributeError")
    ELSE /\ year_month' = TRUE
         /\ ret' = FrequencyAnomalies(df)
         /\ op' = "detect_frequency_anomalies"
         /\ arg' = 0
         /\ raised' = ""
         /\ UNCHANGED <<replaced, sigma_threshold, min_transactions, loaded, df, vendor_stats, anomalies>>

(***************************************************************************)
(* detect_vendor_concentration.  concentration_threshold is ct / 10.       *)
(***************************************************************************)
\* groupby('vendor')['amount'].sum(): one entry per vendor of the batch, by vendor
VendorTotals(rows) ==
    Flatten([k \in 1..Len(VendorSeq) |->
        IF \E i \in DOMAIN rows : rows[i].vendor = VendorSeq[k]
        THEN <<[vendor |-> VendorSeq[k],
                total |-> SeqSum(VendorAmounts(rows, VendorSeq[k]))]>>
        ELSE <<>>])

RECURSIVE SortTotalsDescending(_)
\* sort_values(ascending=False): stable
SortTotalsDescending(ts) ==
    IF ts = <<>> THEN <<>>
    ELSE LET n == Len(ts)
             front == SortTotalsDescending(SubSeq(ts, 1, n - 1))
             last == ts[n]
             keep == Cardinality({i \in DOMAIN front : front[i].total >= last.total})
         IN  SubSeq(front, 1, keep) \o <<last>> \o SubSeq(front, keep + 1, Len(front))

\* whether total / total_amount raises: total_amount is a numpy scalar, so the
\* division is numpy's, and 0 / 0 is NaN with a (filtered) RuntimeWarning
DivisionRaises(total, total_amount) == FALSE

\* whether the loop over vendor_totals raises
ConcentrationRaises(rows) ==
    LET total_amount == SeqSum([i \in 1..Len(rows) |-> rows[i].amount])
        vendor_totals == VendorTotals(rows)
    IN  \E k \in DOMAIN vendor_totals : DivisionRaises(vendor_totals[k].total, total_amount)

\* mutant: a share equal to the threshold is flagged
ConcentrationAtLeast(total, total_amount, ct) ==
    total_amount # 0 /\ 10 * total >= ct * total_amount

\* total / total_amount > ct / 10; 0 / 0 is NaN, and NaN > x is False
ConcentrationExceeds(total, total_amount, ct) ==
    total_amount # 0 /\ 10 * total > ct * total_amount

\* min(95, 60 + concentration * 100)
ConcentrationRisk(total, total_amount) ==
    Min(95 * Scale, 60 * Scale + (100 * Scale * total) \div total_amount)

VendorConcentration(rows, ct) ==
    LET total_amount == SeqSum([i \in 1..Len(rows) |-> rows[i].amount])
        vendor_totals == SortTotalsDescending(VendorTotals(rows))
    IN  Flatten([k \in 1..Len(vendor_totals) |->
            IF ConcentrationExceeds(vendor_totals[k].total, total_amount, ct)
            THEN <<Anomaly(-1, vendor_totals[k].vendor, 0, vendor_totals[k].total,
                           "Vendor Concentration",
                           ConcentrationRisk(vendor_totals[k].total, total_amount), 0, 0)>>
            ELSE <<>>])

DetectVendorConcentration(ct) ==
    IF ~loaded THEN Raise("detect_vendor_concentration", "AttributeError")
    ELSE IF ConcentrationRaises(df)
         THEN Raise("detect_vendor_concentration", "ZeroDivisionError")
         ELSE Return("detect_vendor_concentration", ct, VendorConcentration(df, ct))

(***************************************************************************)
(* run_full_analysis.                                                      *)
(***************************************************************************)
RECURSIVE SortByRiskUnstable(_)
\* mutant: an insertion before the entries of equal score (ties reversed)
SortByRiskUnstable(as) ==
    IF as = <<>> THEN <<>>
    ELSE LET n == Len(as)
             front == SortByRiskUnstable(SubSeq(as, 1, n - 1))
             last == as[n]
             keep == Cardinality({i \in DOMAIN front :
                                     front[i].risk_score > last.risk_score})
         IN  SubSeq(front, 1, keep) \o <<last>> \o SubSeq(front, keep + 1, Len(front))

RECURSIVE SortByRisk(_)
\* list.sort(key=risk_score, reverse=True): stable
SortByRisk(as) ==
    IF as = <<>> THEN <<>>
    ELSE LET n == Len(as)
             front == SortByRisk(SubSeq(as, 1, n - 1))
             last == as[n]
             keep == Cardinality({i \in DOMAIN front :
                                     front[i].risk_score >= last.risk_score})
         IN  SubSeq(front, 1, keep) \o <<last>> \o SubSeq(front, keep + 1, Len(front))

RECURSIVE FirstPerTransaction(_)
\* the anomalies of `all` without those of a transaction reported earlier in it
FirstPerTransaction(all) ==
    IF all = <<>> THEN <<>>
    ELSE LET n == Len(all)
             front == SubSeq(all, 1, n - 1)
             last == all[n]
         IN  IF last.transaction_id >= 0
                /\ \E j \in DOMAIN front : front[j].transaction_id = last.transaction_id
             THEN FirstPerTransaction(front)
             ELSE Append(FirstPerTransaction(front), last)

\* mutant: one anomaly per transaction, the first emitted
AllAnomaliesDeduplicated(rows, stats) ==
    FirstPerTransaction(StatisticalOutliers(rows, stats) \o RoundDollarPatterns(rows)
                            \o FrequencyAnomalies(rows) \o VendorConcentration(rows, 3))

\* all_anomalies before the sort, given the freshly computed stats
AllAnomalies(rows, stats) ==
    StatisticalOutliers(rows, stats) \o RoundDollarPatterns(rows)
        \o FrequencyAnomalies(rows) \o VendorConcentration(rows, 3)

\* mutant: NaT.date() raises
HeaderRaisesOnEmpty(rows) == rows = <<>>

\* whether the header lines raise: min() and max() of an empty date column
\* are NaT, and NaT.date() is NaT
HeaderRaises(rows) == FALSE

\* mutant: the statistics are computed only while self.vendor_stats is empty
RunFullAnalysisCached ==
    IF ~loaded THEN Raise("run_full_analysis", "AttributeError")
    ELSE /\ vendor_stats' = IF vendor_stats = NoStats
                            THEN VendorStatistics(df, min_transactions, sigma_threshold)
                            ELSE vendor_stats
         /\ year_month' = TRUE
         /\ op' = "run_full_analysis"
         /\ arg' = 0
         /\ raised' = ""
         /\ anomalies' = SortByRisk(AllAnomalies(df, vendor_stats'))
         /\ ret' = anomalies'
         /\ UNCHANGED <<replaced, sigma_threshold, min_transactions, loaded, df>>

RunFullAnalysis ==
    IF ~loaded THEN Raise("run_full_analysis", "AttributeError")
    ELSE IF HeaderRaises(df) THEN Raise("run_full_analysis", "ValueError")
    ELSE /\ vendor_stats' = VendorStatistics(df, min_transactions, sigma_threshold)
         /\ year_month' = TRUE
         /\ op' = "run_full_analysis"
         /\ arg' = 0
         /\ UNCHANGED <<replaced, sigma_threshold, min_transactions, loaded, df>>
         /\ IF ConcentrationRaises(df)
            THEN /\ raised' = "ZeroDivisionError"
                 /\ ret' = <<>>
                 /\ UNCHANGED anomalies
            ELSE /\ raised' = ""
                 /\ anomalies' = SortByRisk(AllAnomalies(df, vendor_stats'))
                 /\ ret' = anomalies'

Next ==
    \/ ~loaded /\ \E data \in Batches : LoadData(data)
    \/ ComputeVendorStatistics
    \/ DetectStatisticalOutliers
    \/ DetectRoundDollarPatterns
    \/ DetectFrequencyAnomalies
    \/ \E ct \in ConcentrationThresholds : DetectVendorConcentration(ct)
    \/ RunFullAnalysis

Spec == Init /\ [][Next]_vars

\* the default configuration: FraudDetectionAnalyzer()
DefaultInit == Init /\ sigma_threshold = 3 /\ min_transactions = 5

\* the pattern detector on every single-transaction batch
NextPattern ==
    \/ ~loaded /\ \E data \in SingleBatches : LoadData(data)
    \/ DetectRoundDollarPatterns

SpecPattern == DefaultInit /\ [][NextPattern]_vars

\* the frequency detector on every batch of the frequency family
NextFreq ==
    \/ ~loaded /\ \E data \in FreqBatches : LoadData(data)
    \/ DetectFrequencyAnomalies

SpecFreq == DefaultInit /\ [][NextFreq]_vars

\* one analyzer used for several batches: load_data may replace the batch
NextReload ==
    \/ (~loaded \/ Len(replaced) < MaxReloads) /\ \E data \in ReloadBatches : LoadData(data)
    \/ ComputeVendorStatistics
    \/ DetectStatisticalOutliers
    \/ DetectRoundDollarPatterns
    \/ DetectFrequencyAnomalies
    \/ \E ct \in ConcentrationThresholds : DetectVendorConcentration(ct)
    \/ RunFullAnalysis

SpecReload == Init /\ [][NextReload]_vars

(***************************************************************************)
(* The claims.                                                             *)
(***************************************************************************)
DetectorOps ==
    {"detect_statistical_outliers", "detect_round_dollar_patterns",
     "detect_frequency_anomalies", "detect_vendor_concentration"}

\* the method `name` has just returned (it did not raise)
Returned(name) == op = name /\ raised = ""

\* how often a occurs in the sequence s
Occurrences(s, a) == Cardinality({i \in DOMAIN s : s[i] = a})

\* the detector that emits anomalies of a's type: 1 to 4, in the order they run
DetectorRank(a) ==
    CASE a.anomaly_type = "Statistical Outlier" -> 1
      [] a.anomaly_type \in {"Round Dollar Pattern", "Threshold Evasion"} -> 2
      [] a.anomaly_type = "Frequency Spike" -> 3
      [] OTHER -> 4

\* what the four detectors return on the loaded batch, in the order they run
DetectorOutputs ==
    <<StatisticalOutliers(df, vendor_stats), RoundDollarPatterns(df),
      FrequencyAnomalies(df), VendorConcentration(df, 3)>>

\* a was emitted before b: by an earlier detector, or earlier by the same one
EmittedBefore(outs, a, b) ==
    \/ DetectorRank(a) < DetectorRank(b)
    \/ /\ DetectorRank(a) = DetectorRank(b)
       /\ \E k, l \in DOMAIN outs[DetectorRank(a)] :
              k < l /\ outs[DetectorRank(a)][k] = a /\ outs[DetectorRank(a)][l] = b

\* C1: what run_full_analysis returns is ordered by risk_score descending, and
\* two anomalies of equal score are in the order they were emitted (outliers,
\* patterns, frequency spikes, concentration; within a detector, its own order).
C1_RankedByRisk ==
    Returned("run_full_analysis") =>
        LET outs == DetectorOutputs
        IN  \A i, j \in DOMAIN ret :
                i < j =>
                    \/ ret[i].risk_score > ret[j].risk_score
                    \/ /\ ret[i].risk_score = ret[j].risk_score
                       /\ EmittedBefore(outs, ret[i], ret[j])

\* C1's case: a ranking with a tie, two distinct scores and two detectors
C1_Witness ==
    /\ Returned("run_full_analysis")
    /\ \E i, j \in DOMAIN ret : i < j /\ ret[i].risk_score = ret[j].risk_score
    /\ \E i, j \in DOMAIN ret : ret[i].risk_score > ret[j].risk_score
    /\ \E i, j \in DOMAIN ret : DetectorRank(ret[i]) # DetectorRank(ret[j])

\* C2: run_full_analysis deduplicates nothing: what it returns is a permutation
\* of the concatenation of the four detectors' outputs, as long as their sum.
C2_NoDeduplication ==
    Returned("run_full_analysis") =>
        LET outs == DetectorOutputs
            all == outs[1] \o outs[2] \o outs[3] \o outs[4]
        IN  /\ Len(ret) = Len(outs[1]) + Len(outs[2]) + Len(outs[3]) + Len(outs[4])
            /\ \A i \in DOMAIN all : Occurrences(ret, all[i]) = Occurrences(all, all[i])
            /\ \A i \in DOMAIN ret : Occurrences(all, ret[i]) = Occurrences(ret, ret[i])

\* C2's case: one transaction reported by three checks
C2_Witness ==
    /\ Returned("run_full_analysis")
    /\ \E i, j, k \in DOMAIN ret :
          /\ ret[i].transaction_id >= 0
          /\ ret[j].transaction_id = ret[i].transaction_id
          /\ ret[k].transaction_id = ret[i].transaction_id
          /\ ret[i].anomaly_type = "Statistical Outlier"
          /\ ret[j].anomaly_type = "Round Dollar Pattern"
          /\ ret[k].anomaly_type = "Threshold Evasion"

\* C3: every anomaly a detector or run_full_analysis returns, and every anomaly
\* kept in self.anomalies, has a risk_score from 0 to 100.
C3_RiskScoreInRange ==
    /\ \A i \in DOMAIN ret : 0 <= ret[i].risk_score /\ ret[i].risk_score <= 100 * Scale
    /\ \A i \in DOMAIN anomalies :
          0 <= anomalies[i].risk_score /\ anomalies[i].risk_score <= 100 * Scale

\* C3's case: an outlier more than 4.5 sigma above its mean, clamped to 100
C3_Witness ==
    /\ Returned("run_full_analysis")
    /\ \E i \in DOMAIN ret :
          /\ ret[i].anomaly_type = "Statistical Outlier"
          /\ (ret[i].sigma_multiplier - 3 * Scale) * 20 + 70 * Scale > 100 * Scale
          /\ ret[i].risk_score = 100 * Scale

\* the entries of ret of the given type for the transaction of row i
Reports(type, i) ==
    {k \in DOMAIN ret : ret[k].anomaly_type = type /\ ret[k].transaction_id = i - 1}

\* x > mean + k * std_dev of the series xs (sample standard deviation, two or
\* more values, k >= 0).  With n = Len(xs), dev = n*x - sum and
\* sq = sum of (n*xs[i] - sum)^2: x - mean = dev/n and std_dev^2 = sq/(n^2*(n-1)),
\* so the inequality is dev > 0 and dev^2/sq > k^2/(n-1).
AboveMeanPlusSigmas(x, xs, k) ==
    LET n == Len(xs)
        total == SeqSum(xs)
        dev == n * x - total
        sq == SeqSum([i \in DOMAIN xs |-> (n * xs[i] - total) * (n * xs[i] - total)])
    IN  dev > 0 /\ (sq = 0 \/ k = 0 \/ ~FracLE(dev * dev, sq, k * k, n - 1))

\* self.vendor_stats holds the statistics of the loaded batch
StatsAreCurrent == vendor_stats = VendorStatistics(df, min_transactions, sigma_threshold)

\* C4: given the statistics of the loaded batch, detect_statistical_outliers (on
\* its own or inside run_full_analysis) reports a transaction exactly once if its
\* vendor has at least min_transactions rows and its amount is strictly above
\* mean + sigma_threshold * std_dev of that vendor's amounts, and not at all
\* otherwise; no vendor whose amounts are all equal has an outlier.
C4_OutlierIff ==
    ((Returned("detect_statistical_outliers") /\ StatsAreCurrent)
         \/ Returned("run_full_analysis")) =>
        /\ \A i \in DOMAIN df :
              LET xs == VendorAmounts(df, df[i].vendor)
              IN  /\ Cardinality(Reports("Statistical Outlier", i)) =
                        IF Len(xs) >= min_transactions
                           /\ AboveMeanPlusSigmas(df[i].amount, xs, sigma_threshold)
                        THEN 1 ELSE 0
                  /\ \A k \in Reports("Statistical Outlier", i) :
                        /\ ret[k].vendor = df[i].vendor
                        /\ ret[k].amount = df[i].amount
                        /\ \E j \in DOMAIN xs : xs[j] # xs[1]
        /\ \A k \in DOMAIN ret :
              ret[k].anomaly_type = "Statistical Outlier" =>
                  ret[k].transaction_id + 1 \in DOMAIN df

\* C4's case: a vendor with statistics, one of its transactions an outlier and
\* another not
C4_Witness ==
    /\ Returned("detect_statistical_outliers")
    /\ \E i, j \in DOMAIN df :
          /\ df[i].vendor = df[j].vendor
          /\ df[i].vendor \in DOMAIN vendor_stats
          /\ Reports("Statistical Outlier", i) # {}
          /\ Reports("Statistical Outlier", j) = {}

\* C5: the risk_score of a Statistical Outlier is
\* clamp(0, 100, (sigma_multiplier - sigma_threshold) * 20 + 70) with the
\* configured sigma_threshold, so no outlier of a vendor with std_dev > 0 scores
\* below 70.
C5_RiskFollowsConfiguredSigma ==
    (Returned("detect_statistical_outliers") \/ Returned("run_full_analysis")) =>
        \A k \in DOMAIN ret :
            ret[k].anomaly_type = "Statistical Outlier" =>
                /\ ret[k].risk_score =
                       Min(100 * Scale,
                           Max(0, (ret[k].sigma_multiplier - sigma_threshold * Scale) * 20
                                      + 70 * Scale))
                /\ ret[k].risk_score >= 70 * Scale

\* C6: on an empty batch the four detectors and run_full_analysis raise nothing
\* and return an empty list.
C6_EmptyBatch ==
    (loaded /\ df = <<>> /\ op \in DetectorOps \cup {"run_full_analysis"}) =>
        raised = "" /\ ret = <<>>

\* C6's case: run_full_analysis has run on an empty batch
C6_Witness == loaded /\ df = <<>> /\ op = "run_full_analysis"

\* the summed amount of vendor v in the loaded batch
VendorSum(v) == SeqSum(VendorAmounts(df, v))

\* the summed amount of the loaded batch
BatchSum == SeqSum([i \in DOMAIN df |-> df[i].amount])

\* the entries of ret that report the concentration of vendor v
ConcentrationReports(v) ==
    {k \in DOMAIN ret : ret[k].anomaly_type = "Vendor Concentration" /\ ret[k].vendor = v}

\* C7: detect_vendor_concentration, called with the threshold arg/10, raises
\* nothing and reports a vendor exactly once if its summed amount divided by the
\* batch total is strictly greater than the threshold, and not at all otherwise;
\* when the batch total is 0 it reports nothing.
C7_ConcentrationIff ==
    (loaded /\ op = "detect_vendor_concentration") =>
        /\ raised = ""
        /\ \A k \in DOMAIN ret : ret[k].anomaly_type = "Vendor Concentration"
        /\ BatchSum = 0 => ret = <<>>
        /\ \A v \in Vendors :
              Cardinality(ConcentrationReports(v)) =
                  IF /\ \E i \in DOMAIN df : df[i].vendor = v
                     /\ BatchSum # 0
                     /\ 10 * VendorSum(v) > arg * BatchSum
                  THEN 1 ELSE 0

\* C7's case: one vendor above the threshold and one exactly at it
C7_Witness ==
    /\ Returned("detect_vendor_concentration")
    /\ \E v, w \in Vendors :
          /\ ConcentrationReports(v) # {}
          /\ ConcentrationReports(w) = {}
          /\ BatchSum > 0
          /\ 10 * VendorSum(w) = arg * BatchSum

\* the number of transactions of vendor v in month mo of the loaded batch
Transactions(v, mo) ==
    Cardinality({i \in DOMAIN df : df[i].vendor = v /\ df[i].date.m = mo})

\* the months in which vendor v has transactions
ActiveMonths(v) == {mo \in 1..MaxMonths : Transactions(v, mo) > 0}

\* the condition of C8 for vendor v and month mo.  With n months, T
\* transactions, dev = n*count - T and sq = the sum over the months of
\* (n*count - T)^2: count - mean = dev/n and std_dev^2 = sq/(n^2*(n-1)).
SpikeExpected(v, mo) ==
    LET n == Cardinality(ActiveMonths(v))
        total == SeqSum([m \in 1..MaxMonths |-> Transactions(v, m)])
        dev == n * Transactions(v, mo) - total
        sq == SeqSum([m \in 1..MaxMonths |->
                  IF m \in ActiveMonths(v)
                  THEN (n * Transactions(v, m) - total) * (n * Transactions(v, m) - total)
                  ELSE 0])
    IN  /\ mo \in ActiveMonths(v)
        /\ n >= 3
        /\ sq > 0
        /\ dev > 0
        /\ dev * dev * (n - 1) > 4 * sq
        /\ Transactions(v, mo) >= 10

\* the entries of ret that report a spike of vendor v in month mo
SpikeReports(v, mo) ==
    {k \in DOMAIN ret :
        ret[k].anomaly_type = "Frequency Spike" /\ ret[k].vendor = v /\ ret[k].month = mo}

\* C8: detect_frequency_anomalies reports a (vendor, month) exactly once if the
\* vendor has at least 3 months with transactions, the standard deviation of
\* its monthly counts is positive, and the month's count is strictly above
\* mean + 2 * std_dev and at least 10; it reports nothing else.
C8_FrequencyIff ==
    (loaded /\ op = "detect_frequency_anomalies") =>
        /\ raised = ""
        /\ \A k \in DOMAIN ret :
              ret[k].anomaly_type = "Frequency Spike" /\ ret[k].month \in 1..MaxMonths
        /\ \A v \in Vendors, mo \in 1..MaxMonths :
              Cardinality(SpikeReports(v, mo)) = IF SpikeExpected(v, mo) THEN 1 ELSE 0

\* C8's case: a reported spike, and a month of 9 or more transactions that is none
C8_Witness ==
    /\ Returned("detect_frequency_anomalies")
    /\ \E v \in Vendors, mo, other \in 1..MaxMonths :
          /\ SpikeReports(v, mo) # {}
          /\ Transactions(v, other) >= 9
          /\ SpikeReports(v, other) = {}

ApprovalThresholds == {1000, 2500, 5000, 10000, 25000, 50000}

\* the approval thresholds whose 100-wide window holds the amount a
WindowsOf(a) == {t \in ApprovalThresholds : t - 100 <= a /\ a < t}

\* C9: the pattern detector reports a transaction as Threshold Evasion at most
\* once, and once exactly when threshold - 100 <= amount < threshold for one of
\* the six thresholds; the report names the smallest such threshold and scores 80.
C9_ThresholdEvasion ==
    Returned("detect_round_dollar_patterns") =>
        \A i \in DOMAIN df :
            /\ Cardinality(Reports("Threshold Evasion", i)) =
                   IF WindowsOf(df[i].amount) # {} THEN 1 ELSE 0
            /\ \A k \in Reports("Threshold Evasion", i) :
                   /\ ret[k].threshold \in WindowsOf(df[i].amount)
                   /\ \A t \in WindowsOf(df[i].amount) : ret[k].threshold <= t
                   /\ ret[k].risk_score = 80 * Scale
                   /\ ret[k].amount = df[i].amount

\* C9's case: 4999 is reported against 5000
C9_Witness ==
    /\ Returned("detect_round_dollar_patterns")
    /\ \E i \in DOMAIN df :
          /\ df[i].amount = 4999
          /\ \E k \in Reports("Threshold Evasion", i) : ret[k].threshold = 5000

\* C10: the pattern detector reports a transaction as Round Dollar Pattern
\* exactly when amount >= 1000 and amount mod 100 = 0, with
\* risk_score = min(85, 40 + amount/10000), whatever its vendor; when the
\* threshold-evasion check fires too, the round-dollar report comes first.
C10_RoundDollar ==
    Returned("detect_round_dollar_patterns") =>
        \A i \in DOMAIN df :
            /\ Cardinality(Reports("Round Dollar Pattern", i)) =
                   IF df[i].amount >= 1000 /\ df[i].amount % 100 = 0 THEN 1 ELSE 0
            /\ \A k \in Reports("Round Dollar Pattern", i) :
                   /\ ret[k].risk_score =
                          Min(85 * Scale, 40 * Scale + (df[i].amount * Scale) \div 10000)
                   /\ ret[k].vendor = df[i].vendor
                   /\ ret[k].amount = df[i].amount
                   /\ \A l \in Reports("Threshold Evasion", i) : k < l

\* C10's case: 4900 is reported twice, the round-dollar report first
C10_Witness ==
    /\ Returned("detect_round_dollar_patterns")
    /\ \E i \in DOMAIN df :
          /\ df[i].amount = 4900
          /\ Reports("Round Dollar Pattern", i) # {}
          /\ Reports("Threshold Evasion", i) # {}

\* what a fresh analyzer of this configuration returns for the batch data:
\* FraudDetectionAnalyzer(sigma_threshold, min_transactions), load_data(data),
\* run_full_analysis()
FreshAnalysis(data) ==
    LET rows == SortByDate(data)
    IN  SortByRisk(AllAnomalies(rows,
            VendorStatistics(rows, min_transactions, sigma_threshold)))

\* C11: whatever load_data and other calls came before, a call of
\* run_full_analysis on a loaded batch raises nothing, returns the sequence a
\* fresh analyzer of the same configuration returns for that batch, keeps it
\* as self.anomalies, and leaves the batch and the configuration as they
\* were; so two calls in a row return identical sequences.
C11_FunctionOfBatch ==
    [][(op' = "run_full_analysis" /\ loaded) =>
          /\ raised' = ""
          /\ ret' = FreshAnalysis(df)
          /\ anomalies' = ret'
          /\ df' = df
          /\ sigma_threshold' = sigma_threshold
          /\ min_transactions' = min_transactions]_vars

\* C11's case: run_full_analysis has returned on a batch that replaced
\* another, on which an earlier run had found other anomalies and left
\* other statistics
C11_Witness ==
    /\ Returned("run_full_analysis")
    /\ ret # <<>>
    /\ replaced # <<>>
    /\ replaced[1].df # df
    /\ replaced[1].anomalies # <<>>
    /\ replaced[1].anomalies # ret
    /\ replaced[1].vendor_stats # NoStats
    /\ replaced[1].vendor_stats # vendor_stats

\* C12: a call of one of the four detectors leaves the loaded batch (its rows
\* and its columns) and the vendor statistics as they were, so that no
\* detector sees what another has written and their order does not matter.
C12_DetectorsWriteNothing ==
    [][(op' \in DetectorOps /\ raised' = "") =>
          /\ df' = df
          /\ year_month' = year_month
          /\ vendor_stats' = vendor_stats]_vars

\* C13: whenever detect_statistical_outliers returns with statistics present,
\* they are the statistics of the loaded batch: a transaction is reported
\* exactly when its vendor has at least min_transactions rows in the loaded
\* batch and its amount is strictly above mean + sigma_threshold * std_dev of
\* that vendor's amounts in the loaded batch; statistics of a batch that
\* load_data has replaced neither flag nor clear a transaction.
C13_OnlyCurrentStatistics ==
    (Returned("detect_statistical_outliers") /\ vendor_stats # NoStats) =>
        \A i \in DOMAIN df :
            LET xs == VendorAmounts(df, df[i].vendor)
            IN  Cardinality(Reports("Statistical Outlier", i)) =
                    IF Len(xs) >= min_transactions
                       /\ AboveMeanPlusSigmas(df[i].amount, xs, sigma_threshold)
                    THEN 1 ELSE 0

\* vendor v's months with transactions do not all have the same count
CountsDiffer(v) ==
    \E m1, m2 \in ActiveMonths(v) : Transactions(v, m1) # Transactions(v, m2)

\* C14: detect_frequency_anomalies reports no Frequency Spike for a vendor
\* with transactions in 3, 4 or 5 distinct months, whatever the counts: every
\* reported vendor has at least 6 months of history.
C14_NoSpikeUnderSixMonths ==
    (loaded /\ op = "detect_frequency_anomalies") =>
        \A v \in Vendors :
            Cardinality(ActiveMonths(v)) \in 3..5 =>
                ~\E k \in DOMAIN ret :
                    ret[k].anomaly_type = "Frequency Spike" /\ ret[k].vendor = v

\* C14's case: a vendor with 5 months of history, one of them with 10 or more
\* transactions and the counts not all equal, and nothing reported for it
C14_Witness ==
    /\ Returned("detect_frequency_anomalies")
    /\ \E v \in Vendors :
          /\ Cardinality(ActiveMonths(v)) = 5
          /\ CountsDiffer(v)
          /\ \E mo \in ActiveMonths(v) : Transactions(v, mo) >= 10
          /\ \A k \in DOMAIN ret : ret[k].vendor # v
====
